---- MODULE Spec2Model ----
(***************************************************************************)
(* Quantum Chess signaling server (src/server/main.py): the room registry, *)
(* the Room objects and the websocket handler that binds two channels to a *)
(* room and relays their payloads.                                         *)
(*                                                                         *)
(* The server runs on one asyncio event loop: code between two awaits is   *)
(* atomic, and every await is a point where other handlers may run.  The   *)
(* HTTP handlers (create_room, list_open_games, join_room) contain no      *)
(* await and are one action each.  websocket_endpoint is cut at its awaits *)
(* (accept, the peer_joined send, receive_json).                           *)
(***************************************************************************)
EXTENDS Integers, Sequences, FiniteSets, TLC

\* ---------------------------------------------------------------- bounds
MaxRooms == 2      \* Room objects constructed in one run
MaxChan == 3       \* websocket connections opened in one run
MaxTime == 2       \* the clock runs 0..MaxTime, in hours
MaxMsgs == 2       \* payloads relayed in one run
MaxPayload == 2    \* payloads are the opaque values 1..MaxPayload
IdLen == 1         \* characters of a room id

\* ------------------------------------------------------- program constants
RetentionHours == 1    \* timedelta(hours=1)
CodeNotFound == 4004   \* websocket.close(code=4004)
CodeFull == 4001       \* websocket.close(code=4001)
HttpNotFound == 404
HttpBadRequest == 400
HttpOk == 200
SeedDefault == 0       \* "game_seed or 0"
MinSuperpositions == 1     \* max(1, min(7, request.maxSuperpositions))
MaxSuperpositions == 7
MinMinutes == 1            \* max(1, min(180, request.timeControl.minutes))
MaxMinutes == 180
MinIncrement == 0          \* max(0, min(60, request.timeControl.increment))
MaxIncrement == 60
DefaultSuperpositions == 2 \* CreateRoomRequest.maxSuperpositions: int = 2
DefaultMinutes == 5        \* TimeControlModel.minutes: int = 5
DefaultIncrement == 0      \* TimeControlModel.increment: int = 0

\* None, for each of the three kinds of optional value
NoSeed == -1       \* guest_seed / game_seed is None
NoWs == 0          \* host_ws / guest_ws is None
NoRoom == 0        \* rooms.get(...) is None

Objs == 1..MaxRooms
Chans == 1..MaxChan
Payloads == 1..MaxPayload
Times == 0..MaxTime
\* seeds: 5 XOR 3 = 6 is the documented example; equal seeds XOR to 0
Seeds == {3, 5}

\* ------------------------------------------------------------ room ids
\* Characters of a token: token_urlsafe draws letters of both cases, digits,
\* "-" and "_"; one letter in both cases and one digit stand for them.
Alphabet == {"a", "A", "7"}

\* all strings of length n, as sequences of characters
RECURSIVE StringsOfLen(_)
StringsOfLen(n) ==
    IF n = 0 THEN {<<>>}
    ELSE {Append(s, ch) : s \in StringsOfLen(n - 1), ch \in Alphabet}

Strings == StringsOfLen(IdLen)

UpperChar(ch) == IF ch = "a" THEN "A" ELSE ch

\* str.upper()
Upper(s) == [i \in 1..Len(s) |-> UpperChar(s[i])]

\* generate_room_id: secrets.token_urlsafe(6)[:8].upper(); tok is the token drawn
generate_room_id(tok) == Upper(tok)

\* ------------------------------------------------------------ seeds
RECURSIVE XorNat(_, _)
XorNat(a, b) ==
    IF a = 0 THEN b
    ELSE IF b = 0 THEN a
    ELSE (IF (a % 2) = (b % 2) THEN 0 ELSE 1) + 2 * XorNat(a \div 2, b \div 2)

RECURSIVE OrNat(_, _)
OrNat(a, b) ==
    IF a = 0 THEN b
    ELSE IF b = 0 THEN a
    ELSE (IF (a % 2) = 1 \/ (b % 2) = 1 THEN 1 ELSE 0) + 2 * OrNat(a \div 2, b \div 2)

\* ------------------------------------------------------------ clamping
\* Python's min and max of two integers
min(a, b) == IF a <= b THEN a ELSE b

max(a, b) == IF a >= b THEN a ELSE b

clamp_NoLower(lo, hi, x) == min(hi, x)

\* max(lo, min(hi, x))
clamp(lo, hi, x) == max(lo, min(hi, x))

\* CreateRoomRequest, with the defaults of the fields a request leaves out
CreateRoomRequest(seed, pub) ==
    [seed |-> seed, maxSuperpositions |-> DefaultSuperpositions, isPublic |-> pub,
     minutes |-> DefaultMinutes, increment |-> DefaultIncrement]

\* ------------------------------------------------------------ state
VARIABLES
    now,        \* datetime.now(), in hours
    rooms,      \* the registry: room id -> Room object (NoRoom: no such key)
    nalloc,     \* Room objects constructed so far
    room,       \* the Room objects: object -> its fields
    pc,         \* each websocket handler's position
    chRoom,     \* each handler's local variable room
    role,       \* each handler's local variable role
    open,       \* whether the client's transport is still open
    out,        \* the frames each client has been sent, in order
    closeCode,  \* the code the server closed the websocket with (0: not closed)
    last        \* what the handler step just taken returned or received

vars == <<now, rooms, nalloc, room, pc, chRoom, role, open, out, closeCode, last>>

\* ------------------------------------------------------------ Room
\* a Room object that has not been constructed yet
Unborn ==
    [room_id |-> <<>>, host_seed |-> 0, max_superpositions |-> 0, is_public |-> FALSE,
     time_control_minutes |-> 0, time_control_increment |-> 0, guest_seed |-> NoSeed,
     host_ws |-> NoWs, guest_ws |-> NoWs, created_at |-> 0]

\* Room.__init__
NewRoom(id, seed, sup, pub, minutes, increment, t) ==
    [room_id |-> id, host_seed |-> seed, max_superpositions |-> sup, is_public |-> pub,
     time_control_minutes |-> minutes, time_control_increment |-> increment,
     guest_seed |-> NoSeed, host_ws |-> NoWs, guest_ws |-> NoWs, created_at |-> t]

\* Room.is_full
is_full(r) == r.host_ws # NoWs /\ r.guest_ws # NoWs

is_waiting_NoGuestCheck(r) == r.host_ws # NoWs

\* Room.is_waiting
is_waiting(r) == r.host_ws # NoWs /\ r.guest_ws = NoWs

game_seed_Or(r) ==
    IF r.guest_seed = NoSeed THEN NoSeed ELSE OrNat(r.host_seed, r.guest_seed)

\* Room.game_seed
game_seed(r) ==
    IF r.guest_seed = NoSeed THEN NoSeed ELSE XorNat(r.host_seed, r.guest_seed)

get_other_ws_Self(r, ws) == ws

\* Room.get_other_ws
get_other_ws(r, ws) ==
    IF ws = r.host_ws THEN r.guest_ws
    ELSE IF ws = r.guest_ws THEN r.host_ws
    ELSE NoWs

\* ------------------------------------------------------------ registry
Live(reg) == {id \in Strings : reg[id] # NoRoom}

\* the objects a registry holds
Held(reg) == {reg[id] : id \in Live(reg)}

IsFreeId_NoRetry(reg, id) == TRUE

\* create_room's retry loop "while room_id in rooms" ends on an id not in rooms
IsFreeId(reg, id) == reg[id] = NoRoom

TooOld_Early(r, t) == r.created_at <= t - RetentionHours

\* cleanup_old_rooms: room.created_at < cutoff
TooOld(r, t) == r.created_at < t - RetentionHours

\* cleanup_old_rooms: both players disconnected
Abandoned(r) == r.host_ws = NoWs /\ r.guest_ws = NoWs

\* cleanup_old_rooms, as the registry it leaves
cleanup_old_rooms(reg, rm, t) ==
    [id \in Strings |->
        IF reg[id] # NoRoom /\ (TooOld(rm[reg[id]], t) \/ Abandoned(rm[reg[id]]))
        THEN NoRoom ELSE reg[id]]

lookup_NoUpper(reg, s) == reg[s]

\* rooms.get(room_id.upper())
lookup(reg, s) == reg[Upper(s)]

\* the object that open_games.sort(key=created_at, reverse=True) puts first:
\* newest created_at, and among equals the one the dict iterates first (the
\* sort is stable; the dict iterates in insertion order, which is object order)
First(S, rm) ==
    CHOOSE o \in S : \A p \in S :
        \/ rm[o].created_at > rm[p].created_at
        \/ rm[o].created_at = rm[p].created_at /\ o <= p

RECURSIVE Sorted(_, _)
Sorted(S, rm) ==
    IF S = {} THEN <<>>
    ELSE LET o == First(S, rm) IN <<o>> \o Sorted(S \ {o}, rm)

\* OpenGameInfo
OpenGameInfo(r, t) ==
    [room_id |-> r.room_id, max_superpositions |-> r.max_superpositions,
     time_control |-> <<r.time_control_minutes, "+", r.time_control_increment>>,
     created_at |-> r.created_at, waiting |-> t - r.created_at]

\* list_open_games, after its cleanup: the response body
open_games(reg, rm, t) ==
    LET S == {o \in Held(reg) : rm[o].is_public /\ is_waiting(rm[o])}
        order == Sorted(S, rm)
    IN  [i \in 1..Len(order) |-> OpenGameInfo(rm[order[i]], t)]

\* ------------------------------------------------------------ responses
\* no response: the step just taken was not one of the steps below
NoResp ==
    [op |-> "none", status |-> 0, room_id |-> <<>>, game_seed |-> NoSeed, games |-> <<>>,
     max_superpositions |-> 0, time_control_minutes |-> 0, time_control_increment |-> 0,
     ch |-> NoWs, data |-> 0]

\* CreateRoomResponse
CreateRoomResponse(id, sup, minutes, increment) ==
    [NoResp EXCEPT !.op = "create", !.status = HttpOk, !.room_id = id,
        !.max_superpositions = sup, !.time_control_minutes = minutes,
        !.time_control_increment = increment]

\* the list list_open_games returns
OpenGamesResponse(games) == [NoResp EXCEPT !.op = "list", !.status = HttpOk, !.games = games]

\* HTTPException(status_code=..., detail=...) raised by join_room
JoinError(code) == [NoResp EXCEPT !.op = "join", !.status = code]

\* JoinRoomResponse: game_seed=room.game_seed or 0
JoinRoomResponse(r) ==
    [NoResp EXCEPT !.op = "join", !.status = HttpOk, !.room_id = r.room_id,
        !.game_seed = IF game_seed(r) = NoSeed THEN SeedDefault ELSE game_seed(r),
        !.max_superpositions = r.max_superpositions,
        !.time_control_minutes = r.time_control_minutes,
        !.time_control_increment = r.time_control_increment]

\* data = await websocket.receive_json(), on channel c
Received(c, p) == [NoResp EXCEPT !.op = "receive", !.ch = c, !.data = p]

\* ------------------------------------------------------------ frames
NoFrame == [type |-> "none", role |-> "", game_seed |-> NoSeed, data |-> 0, from |-> NoWs]

\* {"type": "connected", "role": role, "game_seed": room.game_seed}
Connected(rl, gs) == [NoFrame EXCEPT !.type = "connected", !.role = rl, !.game_seed = gs]

\* {"type": "peer_joined", "game_seed": room.game_seed}
PeerJoined(gs) == [NoFrame EXCEPT !.type = "peer_joined", !.game_seed = gs]

\* {"type": "peer_disconnected"}
PeerDisconnected == [NoFrame EXCEPT !.type = "peer_disconnected"]

\* a relayed payload; "from" records the sending channel and is not on the wire
Relayed(p, c) == [NoFrame EXCEPT !.type = "relay", !.data = p, !.from = c]

\* What send_json on channel "to" can do.  On an open transport it writes the
\* frame.  On a closed one the outcome depends on the ASGI server: the frame is
\* dropped, or WebSocketDisconnect is raised, or another exception is raised.
SendOutcomes(to) == IF open[to] THEN {"ok"} ELSE {"dropped", "disconnect", "error"}

Deliver_Prepend(o, to, frame) == [o EXCEPT ![to] = <<frame>> \o @]

\* a frame written to an open transport
Deliver(o, to, frame) == [o EXCEPT ![to] = Append(@, frame)]

\* ------------------------------------------------------------ Init
Init ==
    /\ now = 0
    /\ rooms = [id \in Strings |-> NoRoom]
    /\ nalloc = 0
    /\ room = [o \in Objs |-> Unborn]
    /\ pc = [c \in Chans |-> "idle"]
    /\ chRoom = [c \in Chans |-> NoRoom]
    /\ role = [c \in Chans |-> "none"]
    /\ open = [c \in Chans |-> TRUE]
    /\ out = [c \in Chans |-> <<>>]
    /\ closeCode = [c \in Chans |-> 0]
    /\ last = NoResp

wsVars == <<pc, chRoom, role, open, out, closeCode>>

\* ------------------------------------------------------------ clock
Tick ==
    /\ now < MaxTime
    /\ now' = now + 1
    /\ last' = NoResp
    /\ UNCHANGED <<rooms, nalloc, room, wsVars>>

\* ------------------------------------------------------------ HTTP handlers
\* POST /api/rooms with the request body "request"; tok is the token that
\* generate_room_id draws last, the one the retry loop ends on
create_room_request(tok, request) ==
    /\ nalloc < MaxRooms
    /\ LET swept == cleanup_old_rooms(rooms, room, now)
           id == generate_room_id(tok)
           o == nalloc + 1
           max_sup == clamp(MinSuperpositions, MaxSuperpositions, request.maxSuperpositions)
           time_minutes == clamp(MinMinutes, MaxMinutes, request.minutes)
           time_increment == clamp(MinIncrement, MaxIncrement, request.increment)
       IN  /\ IsFreeId(swept, id)
           /\ rooms' = [swept EXCEPT ![id] = o]
           /\ room' = [room EXCEPT ![o] =
                    NewRoom(id, request.seed, max_sup, request.isPublic,
                            time_minutes, time_increment, now)]
           /\ nalloc' = o
           /\ last' = CreateRoomResponse(id, max_sup, time_minutes, time_increment)
    /\ UNCHANGED <<now, wsVars>>

\* POST /api/rooms with a body that gives seed and isPublic only
create_room(tok, seed, pub) == create_room_request(tok, CreateRoomRequest(seed, pub))

\* GET /api/rooms/open
list_open_games ==
    /\ rooms' = cleanup_old_rooms(rooms, room, now)
    /\ last' = OpenGamesResponse(open_games(rooms', room, now))
    /\ UNCHANGED <<now, nalloc, room, wsVars>>

\* POST /api/rooms/join
join_room(s, seed) ==
    /\ LET o == lookup(rooms, s) IN
        IF o = NoRoom THEN
            /\ last' = JoinError(HttpNotFound)
            /\ UNCHANGED room
        ELSE IF is_full(room[o]) THEN
            /\ last' = JoinError(HttpBadRequest)
            /\ UNCHANGED room
        ELSE
            /\ room' = [room EXCEPT ![o].guest_seed = seed]
            /\ last' = JoinRoomResponse(room'[o])
    /\ UNCHANGED <<now, rooms, nalloc, wsVars>>

\* ------------------------------------------------------------ websocket handler
httpVars == <<now, rooms, nalloc>>

\* the handler returns or dies: the server closes the connection
Ended(c, how) ==
    /\ pc' = [pc EXCEPT ![c] = how]
    /\ open' = [open EXCEPT ![c] = FALSE]

\* websocket_endpoint up to "await websocket.accept()".  Connections are
\* numbered in the order they arrive.
ws_connect(c, s) ==
    /\ pc[c] = "idle"
    /\ \A d \in Chans : d < c => pc[d] # "idle"
    /\ LET o == lookup(rooms, s) IN
        IF o = NoRoom THEN
            /\ closeCode' = [closeCode EXCEPT ![c] = CodeNotFound]
            /\ Ended(c, "done")
            /\ UNCHANGED chRoom
        ELSE
            /\ chRoom' = [chRoom EXCEPT ![c] = o]
            /\ pc' = [pc EXCEPT ![c] = "accepting"]
            /\ UNCHANGED <<closeCode, open>>
    /\ last' = NoResp
    /\ UNCHANGED <<httpVars, room, role, out>>

role_of_GuestFirst(r) ==
    IF r.guest_ws = NoWs THEN "guest"
    ELSE IF r.host_ws = NoWs THEN "host"
    ELSE "none"

\* "Assign to first available slot": the role the assignment gives
role_of(r) ==
    IF r.host_ws = NoWs THEN "host"
    ELSE IF r.guest_ws = NoWs THEN "guest"
    ELSE "none"

\* the room after the assignment of channel c
bind(r, c) ==
    IF role_of(r) = "host" THEN [r EXCEPT !.host_ws = c]
    ELSE IF role_of(r) = "guest" THEN [r EXCEPT !.guest_ws = c]
    ELSE r

unbind_Both(r, c) == [r EXCEPT !.host_ws = NoWs, !.guest_ws = NoWs]

\* "Clear the WebSocket reference"
unbind(r, c) ==
    IF r.host_ws = c THEN [r EXCEPT !.host_ws = NoWs]
    ELSE IF r.guest_ws = c THEN [r EXCEPT !.guest_ws = NoWs]
    ELSE r

ws_attach_host_Notify(c) ==
    /\ pc[c] = "accepting"
    /\ role_of(room[chRoom[c]]) = "host"
    /\ room' = [room EXCEPT ![chRoom[c]] = bind(@, c)]
    /\ role' = [role EXCEPT ![c] = role_of(room[chRoom[c]])]
    /\ LET guest == room[chRoom[c]].guest_ws
           told == IF guest # NoWs /\ open[guest]
                   THEN Deliver(out, guest, PeerJoined(game_seed(room'[chRoom[c]])))
                   ELSE out
       IN  out' = Deliver(told, c, Connected(role'[c], game_seed(room'[chRoom[c]])))
    /\ pc' = [pc EXCEPT ![c] = "recv"]
    /\ last' = NoResp
    /\ UNCHANGED <<httpVars, chRoom, open, closeCode>>

\* accept() has returned and the first available slot is the host's: bind,
\* then send "connected" (no await lies between the two)
ws_attach_host(c) ==
    /\ pc[c] = "accepting"
    /\ role_of(room[chRoom[c]]) = "host"
    /\ room' = [room EXCEPT ![chRoom[c]] = bind(@, c)]
    /\ role' = [role EXCEPT ![c] = role_of(room[chRoom[c]])]
    /\ out' = Deliver(out, c, Connected(role'[c], game_seed(room'[chRoom[c]])))
    /\ pc' = [pc EXCEPT ![c] = "recv"]
    /\ last' = NoResp
    /\ UNCHANGED <<httpVars, chRoom, open, closeCode>>

\* accept() has returned and the first available slot is the guest's: bind,
\* then send "peer_joined" to the host if there is one.  That send is outside
\* the try block: an exception it raises ends the handler with the slot still
\* bound.  The handler resumes from the send in ws_send_connected.
ws_attach_guest(c) ==
    /\ pc[c] = "accepting"
    /\ role_of(room[chRoom[c]]) = "guest"
    /\ room' = [room EXCEPT ![chRoom[c]] = bind(@, c)]
    /\ role' = [role EXCEPT ![c] = role_of(room[chRoom[c]])]
    /\ LET host == room[chRoom[c]].host_ws
           frame == PeerJoined(game_seed(room'[chRoom[c]]))
       IN  IF host = NoWs THEN
                /\ pc' = [pc EXCEPT ![c] = "pj_sent"]
                /\ UNCHANGED <<out, open>>
           ELSE \E outcome \in SendOutcomes(host) :
                \/ /\ outcome = "ok"
                   /\ out' = Deliver(out, host, frame)
                   /\ pc' = [pc EXCEPT ![c] = "pj_sent"]
                   /\ UNCHANGED open
                \/ /\ outcome = "dropped"
                   /\ pc' = [pc EXCEPT ![c] = "pj_sent"]
                   /\ UNCHANGED <<out, open>>
                \/ /\ outcome \in {"disconnect", "error"}
                   /\ Ended(c, "crashed")
                   /\ UNCHANGED out
    /\ last' = NoResp
    /\ UNCHANGED <<httpVars, chRoom, closeCode>>

\* accept() has returned and both slots are taken: close(code=4001)
ws_refuse_full(c) ==
    /\ pc[c] = "accepting"
    /\ role_of(room[chRoom[c]]) = "none"
    /\ closeCode' = [closeCode EXCEPT ![c] = CodeFull]
    /\ Ended(c, "done")
    /\ last' = NoResp
    /\ UNCHANGED <<httpVars, room, chRoom, role, out>>

on_disconnect_ClearFirst(c) ==
    LET o == chRoom[c]
        other_ws == get_other_ws(unbind(room[o], c), c)
    IN  /\ room' = [room EXCEPT ![o] = unbind(@, c)]
        /\ out' = IF other_ws # NoWs /\ open[other_ws]
                  THEN Deliver(out, other_ws, PeerDisconnected)
                  ELSE out
        /\ Ended(c, "done")

\* "except WebSocketDisconnect": resolve the peer, clear the own slot, notify
\* the peer (a failure of that send is swallowed), and return
on_disconnect(c) ==
    LET o == chRoom[c]
        other_ws == get_other_ws(room[o], c)
    IN  /\ room' = [room EXCEPT ![o] = unbind(@, c)]
        /\ out' = IF other_ws # NoWs /\ open[other_ws]
                  THEN Deliver(out, other_ws, PeerDisconnected)
                  ELSE out
        /\ Ended(c, "done")

\* the guest's handler goes on after the "if room.host_ws" block and sends
\* "connected"
ws_send_connected(c) ==
    /\ pc[c] = "pj_sent"
    /\ \E outcome \in SendOutcomes(c) :
        \/ /\ outcome = "ok"
           /\ out' = Deliver(out, c, Connected(role[c], game_seed(room[chRoom[c]])))
           /\ pc' = [pc EXCEPT ![c] = "recv"]
           /\ UNCHANGED <<room, open>>
        \/ /\ outcome = "dropped"
           /\ pc' = [pc EXCEPT ![c] = "recv"]
           /\ UNCHANGED <<room, out, open>>
        \/ /\ outcome = "disconnect"
           /\ on_disconnect(c)
        \/ /\ outcome = "error"
           /\ Ended(c, "crashed")
           /\ UNCHANGED <<room, out>>
    /\ last' = NoResp
    /\ UNCHANGED <<httpVars, chRoom, role, closeCode>>

RECURSIVE CountRelayed(_)
CountRelayed(S) ==
    IF S = {} THEN 0
    ELSE LET c == CHOOSE x \in S : TRUE
         IN  Len(SelectSeq(out[c], LAMBDA f : f.type = "relay")) + CountRelayed(S \ {c})

\* relayed frames delivered so far
NRelayed == CountRelayed(Chans)

\* receive_json returns payload p, which is relayed to the peer if there is one
ws_relay(c, p) ==
    /\ pc[c] = "recv"
    /\ open[c]
    /\ NRelayed < MaxMsgs
    /\ LET other_ws == get_other_ws(room[chRoom[c]], c) IN
        IF other_ws = NoWs THEN
            UNCHANGED <<room, pc, open, out>>
        ELSE
            \E outcome \in SendOutcomes(other_ws) :
                \/ /\ outcome = "ok"
                   /\ out' = Deliver(out, other_ws, Relayed(p, c))
                   /\ UNCHANGED <<room, pc, open>>
                \/ /\ outcome = "dropped"
                   /\ UNCHANGED <<room, pc, open, out>>
                \/ /\ outcome = "disconnect"
                   /\ on_disconnect(c)
                \/ /\ outcome = "error"
                   /\ Ended(c, "crashed")
                   /\ UNCHANGED <<room, out>>
    /\ last' = Received(c, p)
    /\ UNCHANGED <<httpVars, chRoom, role, closeCode>>

\* the client's transport closes
client_close(c) ==
    /\ pc[c] \in {"pj_sent", "recv"}
    /\ open[c]
    /\ open' = [open EXCEPT ![c] = FALSE]
    /\ last' = NoResp
    /\ UNCHANGED <<httpVars, room, pc, chRoom, role, out, closeCode>>

\* receive_json raises WebSocketDisconnect
ws_disconnect(c) ==
    /\ pc[c] = "recv"
    /\ ~open[c]
    /\ on_disconnect(c)
    /\ last' = NoResp
    /\ UNCHANGED <<httpVars, chRoom, role, closeCode>>

\* ------------------------------------------------------------ specification
\* The whole server: every handler, every input.
Next ==
    \/ Tick
    \/ \E tok \in Strings, seed \in Seeds, pub \in BOOLEAN : create_room(tok, seed, pub)
    \/ list_open_games
    \/ \E s \in Strings, seed \in Seeds : join_room(s, seed)
    \/ \E c \in Chans, s \in Strings : ws_connect(c, s)
    \/ \E c \in Chans : ws_attach_host(c)
    \/ \E c \in Chans : ws_attach_guest(c)
    \/ \E c \in Chans : ws_refuse_full(c)
    \/ \E c \in Chans : ws_send_connected(c)
    \/ \E c \in Chans, p \in Payloads : ws_relay(c, p)
    \/ \E c \in Chans : client_close(c)
    \/ \E c \in Chans : ws_disconnect(c)

Spec == Init /\ [][Next]_vars

\* The slot protocol of one room: every websocket step of up to MaxChan
\* connections, with one seed per side, a public room, and the clock at rest.
SlotRooms == 1
SlotMsgs == 1

NextSlots ==
    \/ \E tok \in Strings : nalloc < SlotRooms /\ create_room(tok, 3, TRUE)
    \/ list_open_games
    \/ \E s \in Strings : join_room(s, 5)
    \/ \E c \in Chans, s \in Strings : ws_connect(c, s)
    \/ \E c \in Chans : ws_attach_host(c)
    \/ \E c \in Chans : ws_attach_guest(c)
    \/ \E c \in Chans : ws_refuse_full(c)
    \/ \E c \in Chans : ws_send_connected(c)
    \/ \E c \in Chans : NRelayed < SlotMsgs /\ ws_relay(c, 1)
    \/ \E c \in Chans : client_close(c)
    \/ \E c \in Chans : ws_disconnect(c)

SpecSlots == Init /\ [][NextSlots]_vars

\* The relay between rooms: up to MaxRooms rooms, MaxChan connections and
\* MaxMsgs relayed payloads, without the control plane's join and lobby.
NextRelay ==
    \/ \E tok \in Strings : create_room(tok, 3, TRUE)
    \/ \E c \in Chans, s \in Strings : ws_connect(c, s)
    \/ \E c \in Chans : ws_attach_host(c)
    \/ \E c \in Chans : ws_attach_guest(c)
    \/ \E c \in Chans : ws_refuse_full(c)
    \/ \E c \in Chans : ws_send_connected(c)
    \/ \E c \in Chans, p \in Payloads : ws_relay(c, p)
    \/ \E c \in Chans : client_close(c)
    \/ \E c \in Chans : ws_disconnect(c)

SpecRelay == Init /\ [][NextRelay]_vars

\* The lobby: rooms of both visibilities under the clock, with up to
\* LobbyChans connections binding and unbinding, no join and no payloads.
LobbyChans == 2

NextLobby ==
    \/ Tick
    \/ \E tok \in Strings, pub \in BOOLEAN : create_room(tok, 3, pub)
    \/ list_open_games
    \/ \E c \in 1..LobbyChans, s \in Strings : ws_connect(c, s)
    \/ \E c \in Chans : ws_attach_host(c)
    \/ \E c \in Chans : ws_attach_guest(c)
    \/ \E c \in Chans : ws_send_connected(c)
    \/ \E c \in Chans : client_close(c)
    \/ \E c \in Chans : ws_disconnect(c)

SpecLobby == Init /\ [][NextLobby]_vars

\* The sweep: public rooms under the clock, every HTTP handler with one seed
\* per side, and up to LobbyChans connections binding and unbinding.
NextSweep ==
    \/ Tick
    \/ \E tok \in Strings : create_room(tok, 3, TRUE)
    \/ list_open_games
    \/ \E s \in Strings : join_room(s, 5)
    \/ \E c \in 1..LobbyChans, s \in Strings : ws_connect(c, s)
    \/ \E c \in Chans : ws_attach_host(c)
    \/ \E c \in Chans : ws_attach_guest(c)
    \/ \E c \in Chans : ws_send_connected(c)
    \/ \E c \in Chans : client_close(c)
    \/ \E c \in Chans : ws_disconnect(c)

SpecSweep == Init /\ [][NextSweep]_vars

\* The seeds: every seed on both sides of up to MaxRooms public rooms, with
\* up to LobbyChans connections and the clock at rest.
NextSeeds ==
    \/ \E tok \in Strings, seed \in Seeds : create_room(tok, seed, TRUE)
    \/ \E s \in Strings, seed \in Seeds : join_room(s, seed)
    \/ \E c \in 1..LobbyChans, s \in Strings : ws_connect(c, s)
    \/ \E c \in Chans : ws_attach_host(c)
    \/ \E c \in Chans : ws_attach_guest(c)
    \/ \E c \in Chans : ws_send_connected(c)
    \/ \E c \in Chans : client_close(c)
    \/ \E c \in Chans : ws_disconnect(c)

SpecSeeds == Init /\ [][NextSeeds]_vars

\* The capacity and time control of one room: requests with values below, at
\* the ends of, inside and above each range, then every handler that reads or
\* writes the room, with up to LobbyChans connections and the clock at rest.
SupInputs == {-1, 0, 1, 4, 7, 8, 99}
MinuteInputs == {0, 1, 90, 180, 181}
IncrementInputs == {-1, 0, 30, 60, 61, 1000}

CapRequests ==
    [seed : {3}, maxSuperpositions : SupInputs, isPublic : {TRUE},
     minutes : MinuteInputs, increment : IncrementInputs]

NextCaps ==
    \/ \E tok \in Strings, request \in CapRequests :
            nalloc < SlotRooms /\ create_room_request(tok, request)
    \/ list_open_games
    \/ \E s \in Strings : join_room(s, 5)
    \/ \E c \in 1..LobbyChans, s \in Strings : ws_connect(c, s)
    \/ \E c \in Chans : ws_attach_host(c)
    \/ \E c \in Chans : ws_attach_guest(c)
    \/ \E c \in Chans : ws_send_connected(c)
    \/ \E c \in Chans : client_close(c)
    \/ \E c \in Chans : ws_disconnect(c)

SpecCaps == Init /\ [][NextCaps]_vars

\* ============================================================ properties
\* the channels that have gone through the slot assignment of room object o
Attached(o) == {c \in Chans : chRoom[c] = o /\ pc[c] \notin {"idle", "accepting"}}

\* channel c goes through the slot assignment in this step
Attaches(c) == pc[c] = "accepting" /\ pc'[c] # "accepting"

\* no channel of room object o has disconnected: each is open, or was refused
NeverDisconnected(o) ==
    \A c \in Chans : chRoom[c] = o => (open[c] \/ closeCode[c] = CodeFull)

Frames(c) == {out[c][i] : i \in 1..Len(out[c])}

HasConnected(c, rl) == \E f \in Frames(c) : f.type = "connected" /\ f.role = rl

\* the frame a step appends to channel c's transport, NoFrame if it appends none
Appended(c) ==
    IF Len(out'[c]) = Len(out[c]) + 1 /\ SubSeq(out'[c], 1, Len(out[c])) = out[c]
    THEN out'[c][Len(out'[c])]
    ELSE NoFrame

\* every transport keeps the frames it has and gets at most one more
OutGrows == \A c \in Chans : out'[c] = out[c] \/ Appended(c) # NoFrame

\* ------------------------------------------------------------ C1
C1_Step(c) ==
    LET o == chRoom[c]
        n == Cardinality(Attached(o))
    IN  (Attaches(c) /\ NeverDisconnected(o)) =>
          /\ n = 0 =>
                /\ room'[o].host_ws = c /\ room'[o].guest_ws = NoWs
                /\ role'[c] = "host"
                /\ Appended(c) = Connected("host", Appended(c).game_seed)
          /\ n = 1 =>
                /\ room'[o].guest_ws = c
                /\ room'[o].host_ws = room[o].host_ws /\ room[o].host_ws # NoWs
                /\ role'[c] = "guest"
          /\ n >= 2 =>
                /\ closeCode'[c] = CodeFull /\ pc'[c] = "done"
                /\ room' = room /\ out' = out /\ role' = role

\* a channel that is receiving on an open transport holds the slot whose role
\* its "connected" message named
C1_Told ==
    \A c \in Chans : (pc[c] = "recv" /\ open[c]) =>
        LET r == room[chRoom[c]] IN
            \/ r.host_ws = c /\ r.guest_ws # c /\ HasConnected(c, "host")
                /\ ~HasConnected(c, "guest")
            \/ r.guest_ws = c /\ r.host_ws # c /\ HasConnected(c, "guest")
                /\ ~HasConnected(c, "host")

\* C1: while no channel of a room has disconnected, the first connection to go
\* through the slot assignment is bound as host and told "host", the second is
\* bound as guest and told "guest", and every further one is closed with the
\* room-full code and changes no slot; join_room may run at any point.
C1_SlotOrder == [][(\A c \in Chans : C1_Step(c)) /\ C1_Told']_vars

\* a host and a guest bound and told their roles, a third connection refused,
\* a guest seed recorded, nobody disconnected
C1_Witness ==
    \E o \in Objs : \E h, g, x \in Chans :
        /\ NeverDisconnected(o)
        /\ Attached(o) = {h, g, x} /\ Cardinality({h, g, x}) = 3
        /\ room[o].host_ws = h /\ room[o].guest_ws = g
        /\ room[o].guest_seed # NoSeed
        /\ pc[h] = "recv" /\ pc[g] = "recv"
        /\ HasConnected(h, "host") /\ HasConnected(g, "guest")
        /\ closeCode[x] = CodeFull /\ out[x] = <<>>

\* ------------------------------------------------------------ C2
\* channel c holds a slot of room record r
InSlot(r, c) == c # NoWs /\ (r.host_ws = c \/ r.guest_ws = c)

\* the channel in the slot that c does not hold (NoWs if that slot is empty)
PeerOf(r, c) == IF r.host_ws = c THEN r.guest_ws ELSE r.host_ws

RelayedTo(c) == SelectSeq(out[c], LAMBDA f : f.type = "relay")

\* a payload p was received on channel c in this step
Receives(c, p) == last' = Received(c, p) /\ pc[c] = "recv"

C2_Step(c, p) ==
    LET r == room[chRoom[c]]
        peer == PeerOf(r, c)
    IN  (Receives(c, p) /\ InSlot(r, c) /\ peer # NoWs /\ open[peer]) =>
            /\ peer # c /\ chRoom[peer] = chRoom[c]
            /\ out' = [out EXCEPT ![peer] = Append(@, Relayed(p, c))]
            /\ room' = room /\ pc' = pc

\* a relayed frame lies on the transport of the sender's peer: never on the
\* sender's own, never on a channel of another room
C2_Routed ==
    \A d \in Chans : \A f \in Frames(d) :
        f.type = "relay" => (f.from # d /\ f.from # NoWs /\ chRoom[f.from] = chRoom[d])

\* C2: a payload received on a channel while both slots of its room are bound
\* (the peer's transport open) is written once, unchanged, at the end of what
\* the peer's transport has been sent, and on no other transport; so the peer
\* gets one sender's payloads in the order they were received.
C2_Relay == [][(\A c \in Chans, p \in Payloads : C2_Step(c, p)) /\ C2_Routed']_vars

\* two different payloads of one sender on its peer's transport, in the order
\* received, while another room has a bound channel
C2_Witness ==
    \E c, d \in Chans :
        /\ c # d
        /\ RelayedTo(d) = <<Relayed(2, c), Relayed(1, c)>>
        /\ \E o \in Objs : o # chRoom[d] /\ room[o].host_ws # NoWs

\* ------------------------------------------------------------ C3
C3_Step(c, p) ==
    LET r == room[chRoom[c]] IN
        (Receives(c, p) /\ InSlot(r, c) /\ PeerOf(r, c) = NoWs) =>
            UNCHANGED <<now, rooms, nalloc, room, pc, chRoom, role, open, out, closeCode>>

\* a relayed frame is written in the step that receives its payload
C3_NoBuffer ==
    \A d \in Chans :
        Appended(d).type = "relay" =>
            \E c \in Chans : Receives(c, Appended(d).data) /\ Appended(d).from = c

\* C3: a payload received on a bound channel whose peer slot is empty changes
\* nothing: no frame to anyone (the sender included), the sender still bound
\* and receiving, the room as it was; and no payload is kept for later, a
\* relayed frame being written only in the step that received it.
C3_Drop == [][(\A c \in Chans, p \in Payloads : C3_Step(c, p)) /\ C3_NoBuffer]_vars

\* a payload has just been received from a host that has no guest
C3_Witness ==
    /\ last.op = "receive"
    /\ pc[last.ch] = "recv" /\ open[last.ch]
    /\ room[chRoom[last.ch]].host_ws = last.ch
    /\ room[chRoom[last.ch]].guest_ws = NoWs
    /\ \A d \in Chans : RelayedTo(d) = <<>>

\* ------------------------------------------------------------ C4
\* the handler of channel c, whose transport has closed, takes the
\* WebSocketDisconnect path in this step
Disconnects(c) == ~open[c] /\ pc[c] \in {"recv", "pj_sent"} /\ pc'[c] = "done"

C4_Step(c) ==
    LET o == chRoom[c]
        r == room[o]
        peer == PeerOf(r, c)
    IN  (Disconnects(c) /\ InSlot(r, c) /\ peer # NoWs /\ open[peer]) =>
            /\ peer # c
            /\ out' = [out EXCEPT ![peer] = Append(@, PeerDisconnected)]
            /\ room' = [room EXCEPT ![o] =
                    IF r.host_ws = c THEN [r EXCEPT !.host_ws = NoWs]
                    ELSE [r EXCEPT !.guest_ws = NoWs]]

\* a peer_disconnected frame is written only to the peer of a channel whose
\* handler ends in that step
C4_Only ==
    \A d \in Chans :
        Appended(d).type = "peer_disconnected" =>
            \E c \in Chans :
                /\ c # d /\ pc[c] # "done" /\ pc'[c] = "done"
                /\ chRoom[c] = chRoom[d]
                /\ InSlot(room[chRoom[c]], c) /\ PeerOf(room[chRoom[c]], c) = d
                /\ \A e \in Chans \ {d} : out'[e] = out[e]

C4_Reuse(d) ==
    LET o == chRoom[d] IN
        (Attaches(d) /\ room[o].host_ws = NoWs) =>
            /\ room'[o] = [room[o] EXCEPT !.host_ws = d]
            /\ role'[d] = "host"

\* C4: when a bound channel's disconnect is processed while the other slot is
\* bound (its transport open), the peer is sent one peer_disconnected, no
\* other transport is written, exactly the disconnecting channel's slot is
\* emptied, and the next connection to attach while the host slot is empty is
\* bound as host.
C4_Disconnect ==
    [][(\A c \in Chans : C4_Step(c) /\ C4_Reuse(c)) /\ C4_Only /\ OutGrows]_vars

\* the first host has disconnected, the guest has one peer_disconnected, and
\* a new connection holds the host slot
C4_Witness ==
    \E o \in Objs : \E h, g, n \in Chans :
        /\ Cardinality({h, g, n}) = 3
        /\ chRoom[h] = o /\ role[h] = "host" /\ pc[h] = "done" /\ closeCode[h] = 0
        /\ room[o].guest_ws = g /\ pc[g] = "recv"
        /\ Len(SelectSeq(out[g], LAMBDA f : f.type = "peer_disconnected")) = 1
        /\ out[h] = <<Connected("host", NoSeed)>>
        /\ room[o].host_ws = n /\ role[n] = "host" /\ HasConnected(n, "host")

\* ------------------------------------------------------------ C10
C10_Step(c, s) ==
    ws_connect(c, s) =>
        /\ (rooms[Upper(s)] = NoRoom) <=> (closeCode'[c] = CodeNotFound)
        /\ closeCode'[c] = CodeNotFound =>
            /\ pc'[c] = "done"
            /\ UNCHANGED <<now, rooms, nalloc, room, chRoom, role, out>>

C10_Full(c) ==
    (closeCode[c] = 0 /\ closeCode'[c] = CodeFull) =>
        /\ room[chRoom[c]].host_ws # NoWs /\ room[chRoom[c]].guest_ws # NoWs
        /\ pc'[c] = "done"
        /\ UNCHANGED <<now, rooms, nalloc, room, chRoom, role, out>>

\* a refused connection holds no slot, has no role and has been sent nothing
C10_Refused ==
    /\ CodeNotFound # CodeFull
    /\ \A c \in Chans : closeCode[c] # 0 =>
        /\ closeCode[c] \in {CodeNotFound, CodeFull}
        /\ pc[c] = "done" /\ role[c] = "none" /\ out[c] = <<>>
        /\ \A o \in Objs : ~InSlot(room[o], c)

\* C10: a connection is closed with 4004 exactly when its upper-cased room id
\* is not in the registry, and with the different code 4001 only when both
\* slots are bound; a refused connection is never bound, is sent nothing,
\* causes no frame to any channel and leaves the registry and rooms unchanged.
C10_Refusal ==
    [][(\A c \in Chans : C10_Full(c) /\ \A s \in Strings : C10_Step(c, s)) /\ C10_Refused']_vars

\* a connection refused as not found while a room with both slots bound is
\* in the registry
C10_Witness ==
    \E c \in Chans : \E id \in Live(rooms) :
        /\ closeCode[c] = CodeNotFound
        /\ is_full(room[rooms[id]])

\* ------------------------------------------------------------ C5
Bits == 0..2

Pow2(i) == IF i = 0 THEN 1 ELSE IF i = 1 THEN 2 ELSE 4

Bit(n, i) == (n \div Pow2(i)) % 2

\* x is the bitwise exclusive or of h and g
IsXor(h, g, x) ==
    /\ x \in 0..7
    /\ \A i \in Bits : Bit(x, i) = (IF Bit(h, i) = Bit(g, i) THEN 0 ELSE 1)

\* v is what a reader of record r's shared seed must see
SeedOf(r, v) ==
    IF r.guest_seed = NoSeed THEN v = NoSeed ELSE IsXor(r.host_seed, r.guest_seed, v)

C5_State ==
    \A o \in 1..nalloc :
        /\ (game_seed(room[o]) # NoSeed) <=> (room[o].guest_seed # NoSeed)
        /\ SeedOf(room[o], game_seed(room[o]))

\* the seed in a connected or peer_joined frame written in this step
C5_Frames ==
    \A c \in Chans : \A d \in Chans :
        /\ Appended(c).type = "connected" =>
                SeedOf(room'[chRoom[c]], Appended(c).game_seed)
        /\ (Appended(c).type = "peer_joined" /\ Attaches(d)) =>
                SeedOf(room'[chRoom[d]], Appended(c).game_seed)

\* the seed join_room has just returned
C5_Join ==
    (last.op = "join" /\ last.status = HttpOk) =>
        /\ rooms[last.room_id] # NoRoom
        /\ room[rooms[last.room_id]].guest_seed # NoSeed
        /\ SeedOf(room[rooms[last.room_id]], last.game_seed)

\* C5: a room's game_seed is defined exactly when its guest_seed is, and is
\* then the bitwise XOR of host_seed and guest_seed; the game_seed join_room
\* returns and the ones written into connected and peer_joined frames are
\* None or that XOR of the seeds held at the step that reads them.
C5_SharedSeed == [][C5_State' /\ C5_Frames /\ C5_Join']_vars

\* 3 XOR 5 = 6 told to a guest, after the host was told None
C5_Witness ==
    \E o \in Objs : \E h, g \in Chans :
        /\ room[o].host_seed = 3 /\ room[o].guest_seed = 5
        /\ room[o].host_ws = h /\ room[o].guest_ws = g
        /\ out[h] = <<Connected("host", NoSeed), PeerJoined(6)>>
        /\ out[g] = <<Connected("guest", 6)>>

\* ------------------------------------------------------------ C9
C9_Step(s, g) ==
    LET o == rooms[Upper(s)] IN
    join_room(s, g) =>
        /\ last'.op = "join"
        /\ o = NoRoom =>
            /\ last'.status = HttpNotFound
            /\ UNCHANGED <<now, rooms, nalloc, room, pc, chRoom, role, open, out, closeCode>>
        /\ (o # NoRoom /\ room[o].host_ws # NoWs /\ room[o].guest_ws # NoWs) =>
            /\ last'.status = HttpBadRequest
            /\ UNCHANGED <<now, rooms, nalloc, room, pc, chRoom, role, open, out, closeCode>>
        /\ (o # NoRoom /\ (room[o].host_ws = NoWs \/ room[o].guest_ws = NoWs)) =>
            /\ last'.status = HttpOk
            /\ last'.room_id = Upper(s)
            /\ IsXor(room[o].host_seed, g, last'.game_seed)
            /\ room' = [room EXCEPT ![o] = [room[o] EXCEPT !.guest_seed = g]]
            /\ UNCHANGED <<now, rooms, nalloc, pc, chRoom, role, open, out, closeCode>>

\* C9: join_room(id, g) answers 404 when the upper-cased id is not in the
\* registry and 400 when both slots of the room are bound, changing nothing;
\* otherwise it sets the room's guest_seed to g, changes nothing else, and
\* returns host_seed XOR g.
C9_Join == [][\A s \in Strings, g \in Seeds : C9_Step(s, g)]_vars

\* a join refused as full, on a room whose guest seed an earlier join set
C9_Witness ==
    /\ last.op = "join" /\ last.status = HttpBadRequest
    /\ \E id \in Live(rooms) : is_full(room[rooms[id]]) /\ room[rooms[id]].guest_seed = 5
    /\ \E id \in Live(rooms) : ~is_full(room[rooms[id]])

\* ------------------------------------------------------------ C6
\* the ids a lobby response lists
Listed(games) == {games[i].room_id : i \in 1..Len(games)}

\* at time t, record r is within the retention window and not abandoned
Survives(r, t) ==
    /\ t - r.created_at <= RetentionHours
    /\ (r.host_ws # NoWs \/ r.guest_ws # NoWs)

C6_Step ==
    last'.op = "list" =>
        /\ Listed(last'.games) =
            {id \in Live(rooms) :
                LET r == room[rooms[id]] IN
                    /\ Survives(r, now)
                    /\ r.is_public /\ r.host_ws # NoWs /\ r.guest_ws = NoWs}
        /\ Cardinality(Listed(last'.games)) = Len(last'.games)

\* C6: the response of list_open_games lists exactly the rooms that survive
\* its sweep and are public with the host slot bound and the guest slot empty,
\* each once: no private room, no room with a guest, no room without a host.
C6_OpenGames == [][C6_Step]_vars

\* a lobby response that lists one room and leaves out a live room
C6_Witness ==
    /\ last.op = "list"
    /\ Len(last.games) = 1
    /\ \E id \in Live(rooms) : id \notin Listed(last.games) /\ ~room[rooms[id]].is_public

\* ------------------------------------------------------------ C7
\* this step is a handler that runs cleanup_old_rooms
Sweeps == last'.op \in {"create", "list"}

C7_Step ==
    Sweeps =>
        /\ \A id \in Strings :
            \/ last'.op = "create" /\ id = last'.room_id
            \/ rooms'[id] =
                IF rooms[id] # NoRoom /\ Survives(room[rooms[id]], now)
                THEN rooms[id] ELSE NoRoom
        /\ \A o \in 1..nalloc : room'[o] = room[o]
        /\ \A id \in Live(rooms') :
            now' - room'[rooms'[id]].created_at <= RetentionHours

\* an object that has left the registry never returns to it, and a lookup (by
\* join_room or by a connecting channel) resolves only to an object in it
C7_Gone ==
    /\ \A o \in 1..nalloc : o \notin Held(rooms) => o \notin Held(rooms')
    /\ \A c \in Chans : (pc[c] = "idle" /\ pc'[c] = "accepting") => chRoom'[c] \in Held(rooms)
    /\ \A o \in 1..nalloc : room'[o].guest_seed # room[o].guest_seed => o \in Held(rooms)

\* C7: a sweep removes exactly the rooms older than one hour or with both
\* slots empty and leaves every other room in place and unmodified; a room
\* removed for its age, whatever it has bound, is not found afterwards by
\* join_room, by a connecting channel or by list_open_games.
C7_Sweep == [][C7_Step /\ C7_Gone]_vars

\* after a sweep: a room with a bound channel is gone for its age, and a room
\* exactly one hour old is still there
C7_Witness ==
    /\ last.op = "list"
    /\ \E o \in 1..nalloc :
        /\ o \notin Held(rooms)
        /\ room[o].host_ws # NoWs
        /\ now - room[o].created_at > RetentionHours
    /\ \E id \in Live(rooms) : now - room[rooms[id]].created_at = RetentionHours

\* ------------------------------------------------------------ C8
C8_Step ==
    (last'.op = "create" /\ nalloc' = nalloc + 1) =>
        LET id == last'.room_id IN
            /\ rooms[id] # NoRoom => ~Survives(room[rooms[id]], now)
            /\ \A other \in Live(rooms') \ {id} : rooms'[other] # nalloc'
            /\ room'[nalloc'].room_id = id
            /\ nalloc' \notin Held(rooms)
            /\ \A s \in Strings : Upper(s) = Upper(id) => lookup(rooms', s) = nalloc'

\* C8: the id create_room returns is the id of no room that is live when the
\* new room is inserted, and right after it a lookup of that id in any letter
\* case finds the new room.
C8_FreshId == [][C8_Step]_vars

\* a room has just been created while another room is live
C8_Witness ==
    /\ last.op = "create"
    /\ rooms[last.room_id] = nalloc
    /\ \E id \in Live(rooms) : id # last.room_id /\ room[rooms[id]].host_ws # NoWs

\* ------------------------------------------------------------ C11
\* the steps that overwrite a guest seed already recorded
C11_GuestSeedKept ==
    \A o \in 1..nalloc :
        room[o].guest_seed # NoSeed => room'[o].guest_seed = room[o].guest_seed

C11_HostSeedKept == \A o \in 1..nalloc : room'[o].host_seed = room[o].host_seed

C11_SharedSeedKept ==
    \A o \in 1..nalloc :
        game_seed(room[o]) # NoSeed => game_seed(room'[o]) = game_seed(room[o])

\* C11: once a room's guest_seed is set no step changes it, so its game_seed
\* never changes once defined; and no step changes a room's host_seed.
C11_Immutable == [][C11_GuestSeedKept /\ C11_HostSeedKept /\ C11_SharedSeedKept]_vars

\* ------------------------------------------------------------ C12
\* x brought into lo..hi is y
Clamped(lo, hi, x, y) ==
    /\ y \in lo..hi
    /\ x \in lo..hi => y = x
    /\ x < lo => y = lo
    /\ x > hi => y = hi

C12_Step(tok, request) ==
    create_room_request(tok, request) =>
        LET r == room'[nalloc'] IN
            /\ last'.op = "create" /\ last'.status = HttpOk
            /\ rooms'[last'.room_id] = nalloc'
            /\ Clamped(1, 7, request.maxSuperpositions, r.max_superpositions)
            /\ Clamped(1, 180, request.minutes, r.time_control_minutes)
            /\ Clamped(0, 60, request.increment, r.time_control_increment)
            /\ last'.max_superpositions = r.max_superpositions
            /\ last'.time_control_minutes = r.time_control_minutes
            /\ last'.time_control_increment = r.time_control_increment

\* a request is refused only for the bound on the rooms of one run
C12_Accepted(tok, request) ==
    nalloc < MaxRooms => ENABLED create_room_request(tok, request)

C12_Kept ==
    \A o \in 1..nalloc :
        /\ room'[o].max_superpositions = room[o].max_superpositions
        /\ room'[o].time_control_minutes = room[o].time_control_minutes
        /\ room'[o].time_control_increment = room[o].time_control_increment

\* what join_room and list_open_games report is what the room stores
C12_Reported ==
    /\ (last'.op = "join" /\ last'.status = HttpOk) =>
        LET r == room'[rooms'[last'.room_id]] IN
            /\ last'.max_superpositions = r.max_superpositions
            /\ last'.time_control_minutes = r.time_control_minutes
            /\ last'.time_control_increment = r.time_control_increment
    /\ last'.op = "list" =>
        \A i \in 1..Len(last'.games) :
            LET g == last'.games[i]
                r == room'[rooms'[g.room_id]]
            IN  /\ g.max_superpositions = r.max_superpositions
                /\ g.time_control = <<r.time_control_minutes, "+", r.time_control_increment>>

\* C12: create_room accepts every integer maxSuperpositions, minutes and
\* increment and stores and returns them clamped to 1..7, 1..180 and 0..60
\* (99 gives 7, minutes 0 gives 1, increment 1000 gives 60); no later step
\* changes the stored values, and join_room and list_open_games report them.
C12_Clamping ==
    [][/\ nalloc' # nalloc =>
            \A tok \in Strings, request \in CapRequests : C12_Step(tok, request)
       /\ nalloc < SlotRooms =>
            \A tok \in Strings, request \in CapRequests : C12_Accepted(tok, request)
       /\ C12_Kept
       /\ C12_Reported]_vars

\* a room created from 99, 0 and 1000 holds 7, 1 and 60 after a guest has
\* joined and both slots were bound
C12_Witness ==
    \E o \in Objs :
        /\ room[o].max_superpositions = 7
        /\ room[o].time_control_minutes = 1
        /\ room[o].time_control_increment = 60
        /\ room[o].host_ws # NoWs /\ room[o].guest_ws # NoWs
        /\ room[o].guest_seed = 5

\* ------------------------------------------------------------ C13
\* the handler of channel c is past the slot assignment and has not ended
Running(c) == pc[c] \in {"pj_sent", "recv"}

\* no channel in both slots of a room, none in the slots of two Room objects
C13_OneSlot ==
    /\ \A o \in Objs : room[o].host_ws # NoWs => room[o].host_ws # room[o].guest_ws
    /\ \A c \in Chans : \A o \in Objs : InSlot(room[o], c) => chRoom[c] = o

\* the running handlers of one Room object hold different roles, and each is
\* in the slot of its role
C13_OneRole ==
    /\ \A c, d \in Chans :
        (c # d /\ Running(c) /\ Running(d) /\ chRoom[c] = chRoom[d]) => role[c] # role[d]
    /\ \A c \in Chans : Running(c) =>
        /\ role[c] \in {"host", "guest"}
        /\ role[c] = "host" => room[chRoom[c]].host_ws = c
        /\ role[c] = "guest" => room[chRoom[c]].guest_ws = c

\* C13: under every interleaving of the attach, disconnect, join_room and
\* sweep steps, no channel is in both slots of a room or in slots of two
\* rooms, and no two running handlers of one room hold the same role.
C13_Exclusive == C13_OneSlot /\ C13_OneRole

\* a second channel holds the role host of a room whose first host has
\* disconnected, beside a running guest, after a join
C13_Witness ==
    \E h, n, g \in Chans :
        /\ h # n /\ chRoom[h] = chRoom[n] /\ chRoom[g] = chRoom[n]
        /\ role[h] = "host" /\ pc[h] = "done"
        /\ role[n] = "host" /\ Running(n)
        /\ role[g] = "guest" /\ Running(g)
        /\ room[chRoom[n]].guest_seed # NoSeed

\* ------------------------------------------------------------ C14
\* the handler of channel c runs its "except WebSocketDisconnect" block in
\* this step: it ends without a close code
Handles(c) == Running(c) /\ pc'[c] = "done" /\ closeCode'[c] = 0

C14_Step(c) ==
    LET o == chRoom[c]
        r == room[o]
        peer == PeerOf(r, c)
    IN  (Handles(c) /\ InSlot(r, c)) =>
            /\ room' = [room EXCEPT ![o] =
                    IF r.host_ws = c THEN [r EXCEPT !.host_ws = NoWs]
                    ELSE [r EXCEPT !.guest_ws = NoWs]]
            /\ ~InSlot(room'[o], c)
            /\ rooms' = rooms /\ nalloc' = nalloc /\ now' = now
            /\ out' = IF peer # NoWs /\ open[peer]
                      THEN [out EXCEPT ![peer] = Append(@, PeerDisconnected)]
                      ELSE out
            /\ \A d \in Chans \ {c} : pc'[d] = pc[d] /\ role'[d] = role[d] /\ open'[d] = open[d]

\* C14: the step that processes the disconnect of a bound channel empties
\* exactly that channel's slot and leaves the other slot, the seeds, the
\* rest of the room, every other room and the registry as they were; the one
\* channel notified is the one that was in the other slot before the
\* clearing (if its transport is open), and nothing is written otherwise.
C14_DisconnectEffect == [][\A c \in Chans : C14_Step(c)]_vars

\* a guest's disconnect has been processed: its host, still bound, holds the
\* peer_disconnected, and the guest seed it joined with is still recorded
C14_Witness ==
    \E h, g \in Chans :
        /\ role[g] = "guest" /\ pc[g] = "done" /\ closeCode[g] = 0
        /\ chRoom[h] = chRoom[g]
        /\ room[chRoom[g]].host_ws = h /\ room[chRoom[g]].guest_ws = NoWs
        /\ room[chRoom[g]].guest_seed = 5
        /\ Len(out[h]) > 0 /\ out[h][Len(out[h])] = PeerDisconnected

\* ------------------------------------------------------------ C15
\* the handler of channel c has ended, by returning or by an exception
Finished(c) == pc[c] \in {"done", "crashed"}

\* C15: a slot is bound only to a live channel: a channel whose handler has
\* ended, however it ended, occupies no slot of any room.
C15_LiveOnly ==
    \A c \in Chans : Finished(c) => \A o \in Objs : ~InSlot(room[o], c)

\* ------------------------------------------------------------ C16
\* channel c is bound to the guest slot in this step
BindsGuest(c) == Attaches(c) /\ room[chRoom[c]].guest_ws # c /\ room'[chRoom[c]].guest_ws = c

\* the guest binding of c, with the host slot held by an open transport,
\* writes one peer_joined with the room's seed of that moment to the host
C16_Step(c) ==
    LET o == chRoom[c]
        host == room[o].host_ws
    IN  (BindsGuest(c) /\ host # NoWs /\ open[host]) =>
            /\ host # c /\ role[host] = "host"
            /\ Appended(host).type = "peer_joined"
            /\ SeedOf(room'[o], Appended(host).game_seed)
            /\ \A d \in Chans \ {host} : out'[d] = out[d]

\* a peer_joined is written only by such a step, to the host of that room
C16_Only ==
    \A d \in Chans :
        Appended(d).type = "peer_joined" =>
            /\ role[d] = "host" /\ room[chRoom[d]].host_ws = d
            /\ last'.op # "join"
            /\ \E c \in Chans \ {d} : BindsGuest(c) /\ chRoom[c] = chRoom[d]

\* no channel holds more peer_joined frames than guests were bound in its room
C16_Count ==
    \A d \in Chans :
        /\ role[d] # "host" => \A f \in Frames(d) : f.type # "peer_joined"
        /\ Len(SelectSeq(out[d], LAMBDA f : f.type = "peer_joined"))
            <= Cardinality({c \in Chans : chRoom[c] = chRoom[d] /\ role[c] = "guest"})

\* C16: each binding of a channel to the guest slot while the host slot is
\* bound (its transport open) writes exactly one peer_joined, carrying the
\* room's game_seed of that moment (None without a guest seed), to the host
\* channel and nothing to any other; no other step writes a peer_joined: not
\* a binding as host, not join_room, and none goes to a guest.
C16_PeerJoined == [][(\A c \in Chans : C16_Step(c)) /\ C16_Only /\ C16_Count' /\ OutGrows]_vars

\* a host that has been told of two guests: of the first before any join,
\* with no seed, and of the second after the join, with 3 XOR 5
C16_Witness ==
    \E h \in Chans :
        /\ SelectSeq(out[h], LAMBDA f : f.type = "peer_joined") = <<PeerJoined(NoSeed), PeerJoined(6)>>
        /\ room[chRoom[h]].host_ws = h

\* ------------------------------------------------------------ C17
\* channel c has been bound to a slot
Bound(c) == role[c] \in {"host", "guest"}

\* C17: the first frame a bound channel receives is its connected
\* confirmation, carrying its role: no relayed payload, peer_joined or
\* peer_disconnected comes before it.
C17_ConnectedFirst ==
    \A c \in Chans : (Bound(c) /\ out[c] # <<>>) => out[c][1] = Connected(role[c], out[c][1].game_seed)

\* ------------------------------------------------------------ C18
\* the guests of Room object o: the channels bound to its guest slot so far
GuestsOf(o) == {c \in Chans : chRoom[c] = o /\ role[c] = "guest"}

\* C18: for a single guest attach, the game_seed of the peer_joined sent to
\* the host and the game_seed of the connected sent to that guest are the
\* same value, wherever join_room calls fall between the handler's steps.
\* In a room that has had one guest, every peer_joined comes from that
\* guest's attach.
C18_SameSeed ==
    \A o \in Objs : \A g \in Chans :
        GuestsOf(o) = {g} =>
            \A h \in Chans : \A pj \in Frames(h) : \A cn \in Frames(g) :
                (chRoom[h] = o /\ pj.type = "peer_joined" /\ cn.type = "connected")
                    => pj.game_seed = cn.game_seed

\* ------------------------------------------------------------ C19
\* at time t, record r is younger than the retention window
Young(r, t) == t - r.created_at < RetentionHours

\* C19: a room younger than one hour to which no channel has ever attached
\* is not removed from the registry by any step, so that its creator's
\* connection and a join_room on its id still find it.
C19_YoungKept ==
    [][\A id \in Live(rooms) :
            (Young(room[rooms[id]], now) /\ Attached(rooms[id]) = {}) => rooms'[id] = rooms[id]]_vars

\* ------------------------------------------------------------ C20
\* the receive loop of c takes a payload while the channel in the other slot
\* has a closed transport whose disconnect has not been processed
C20_Step(c, p) ==
    LET o == chRoom[c]
        r == room[o]
        peer == PeerOf(r, c)
    IN  (Receives(c, p) /\ open[c] /\ InSlot(r, c) /\ peer # NoWs /\ ~open[peer]
            /\ Running(peer)) =>
            /\ InSlot(room'[o], c)
            /\ pc'[c] = "recv"
            /\ out' = out

\* C20: a channel's slot is emptied only by that channel's own transport
\* closing: when the forwarding of a payload fails because the peer's
\* transport has closed and its disconnect is not yet processed, the sender
\* stays bound, its receive loop goes on, and no peer_disconnected is written.
C20_SenderKept == [][\A c \in Chans, p \in Payloads : C20_Step(c, p)]_vars

====
